---- MODULE Spec2Model ----
(***************************************************************************)
(* Model of ruffbox-scheduler (src/ruffbox-scheduler/src/lib.rs): the      *)
(* cyclic EventSequence and the time-recursive Scheduler that drives it.   *)
(*                                                                         *)
(* Representation.  A String is a tuple of one-character strings ("VT"     *)
(* stands for the single character U+000B).  Wall-clock times (f64         *)
(* milliseconds) are integers in ms; audio times (f64 seconds) are integers*)
(* in microseconds, so `tempo / 1000.0` seconds is tempo * 1000 us and the *)
(* lookahead 0.100 s is 100000 us.  usize::MAX (2^32 - 1 on wasm32) is     *)
(* represented by USIZE_MAX; indices are 0-based as in the source.         *)
(* An arithmetic overflow panics or wraps depending on the build           *)
(* (overflow checks on or off), so the operations yield the set of their   *)
(* possible outcomes: [self, .., panic].                                   *)
(***************************************************************************)
EXTENDS Integers, Sequences, FiniteSets, TLC

VARIABLES
    sched,            \* the Scheduler struct (lib.rs:73-85)
    now,              \* host wall clock, performance.now(), in ms
    pending,          \* host timers: outstanding sleep(..).then(scheduler_routine)
    posted,           \* messages handed to postMessage by the last operation
    last,             \* the last operation performed and its arguments
    panicked,         \* a Rust panic has unwound out of the last operation
    seq,              \* a stand-alone EventSequence (unit level)
    ret               \* value returned by the last get_next_event on seq

vars == <<sched, now, pending, posted, last, panicked, seq, ret>>

----------------------------------------------------------------------------
(* Bounds *)

MaxCalls == 7         \* get_next_event calls followed on one stand-alone sequence
MaxTime == 192        \* the host clock is followed up to this many ms
MaxPending == 2       \* outstanding host timers followed at once
AudioClockOffset == 7 \* AudioContext.currentTime (us) when performance.now() = 0

----------------------------------------------------------------------------
(* Strings *)

USIZE_MAX == 2147483647
MicrosPerSecond == 1000000
None == <<"None">>

Sine == <<"s", "i", "n", "e">>
Rest == <<"~">>
Bd == <<"b", "d">>
Sn == <<"s", "n">>

Max(a, b) == IF a >= b THEN a ELSE b

\* char::is_ascii_whitespace: SPACE, TAB, LF, FF, CR (not U+000B)
is_ascii_whitespace(c) == c \in {" ", "\t", "\n", "\f", "\r"}

\* char::is_whitespace: the Unicode White_Space property
is_whitespace(c) == c \in {" ", "\t", "\n", "VT", "\f", "\r"}

RECURSIVE split_from(_, _, _, _)
split_from(s, i, cur, acc) ==
    IF i > Len(s)
    THEN IF cur = <<>> THEN acc ELSE Append(acc, cur)
    ELSE IF is_ascii_whitespace(s[i])
         THEN split_from(s, i + 1, <<>>, IF cur = <<>> THEN acc ELSE Append(acc, cur))
         ELSE split_from(s, i + 1, Append(cur, s[i]), acc)

\* str::split_ascii_whitespace, collected: the non-empty runs between ASCII whitespace
split_ascii_whitespace(s) == split_from(s, 1, <<>>, <<>>)

strip_cr(l) ==
    IF Len(l) > 0 /\ l[Len(l)] = "\r" THEN SubSeq(l, 1, Len(l) - 1) ELSE l

RECURSIVE lines_from(_, _, _, _)
lines_from(s, i, cur, acc) ==
    IF i > Len(s)
    THEN IF cur = <<>> THEN acc ELSE Append(acc, cur)
    ELSE IF s[i] = "\n"
         THEN lines_from(s, i + 1, <<>>, Append(acc, strip_cr(cur)))
         ELSE lines_from(s, i + 1, Append(cur, s[i]), acc)

\* str::lines, collected: split at "\n" or "\r\n", no empty line after a final terminator
lines(s) == lines_from(s, 1, <<>>, <<>>)

RECURSIVE trim_start(_)
trim_start(s) ==
    IF s # <<>> /\ is_whitespace(s[1]) THEN trim_start(Tail(s)) ELSE s

RECURSIVE trim_end(_)
trim_end(s) ==
    IF s # <<>> /\ is_whitespace(s[Len(s)]) THEN trim_end(SubSeq(s, 1, Len(s) - 1)) ELSE s

\* str::trim
trim(s) == trim_end(trim_start(s))

----------------------------------------------------------------------------
(* EventSequence *)

\* EventSequence::from_string
from_string(input_line) ==
    [events |-> split_ascii_whitespace(input_line), idx |-> 0]

\* update_sequence restarting the sequence (cursor reset to 0)
update_sequence_reset(self, input_line) ==
    {[self |-> [events |-> split_ascii_whitespace(input_line), idx |-> 0], panic |-> FALSE]}

\* update_sequence with the clamp test off by one (`>` for `>=`)
update_sequence_late_clamp(self, input_line) ==
    LET ev == split_ascii_whitespace(input_line)
    IN  IF self.idx > Len(ev)
        THEN {[self |-> [events |-> ev, idx |-> Len(ev) - 1], panic |-> FALSE]}
        ELSE {[self |-> [events |-> ev, idx |-> self.idx], panic |-> FALSE]}

\* EventSequence::update_sequence.  `len() - 1` on an empty vector overflows:
\* a panic when overflow checks are on, a wrap to usize::MAX otherwise.
update_sequence(self, input_line) ==
    LET ev == split_ascii_whitespace(input_line)
    IN  IF self.idx >= Len(ev)
        THEN IF Len(ev) = 0
             THEN {[self |-> [events |-> ev, idx |-> self.idx], panic |-> TRUE],
                   [self |-> [events |-> ev, idx |-> USIZE_MAX], panic |-> FALSE]}
             ELSE {[self |-> [events |-> ev, idx |-> Len(ev) - 1], panic |-> FALSE]}
        ELSE {[self |-> [events |-> ev, idx |-> self.idx], panic |-> FALSE]}

\* the indexing `&self.events[cur_idx]` after the cursor has moved to nidx
index_events(self, cur_idx, nidx) ==
    IF cur_idx >= Len(self.events)
    THEN [self |-> [self EXCEPT !.idx = nidx], ret |-> <<>>, panic |-> TRUE]
    ELSE [self |-> [self EXCEPT !.idx = nidx], ret |-> self.events[cur_idx + 1],
          panic |-> FALSE]

\* get_next_event wrapping one position early
get_next_event_early_wrap(self) ==
    IF self.idx = USIZE_MAX
    THEN {[self |-> self, ret |-> <<>>, panic |-> TRUE]}
    ELSE {index_events(self, self.idx,
                       IF self.idx + 2 >= Len(self.events) THEN 0 ELSE self.idx + 1)}

\* get_next_event that never wraps the cursor back to 0
get_next_event_no_wrap(self) ==
    IF self.idx = USIZE_MAX
    THEN {[self |-> self, ret |-> <<>>, panic |-> TRUE]}
    ELSE {index_events(self, self.idx, self.idx + 1)}

\* EventSequence::get_next_event.  The "~" built for an empty sequence is
\* dropped; the cursor is advanced and then events[cur_idx] is indexed,
\* which panics when cur_idx is out of bounds.  `idx + 1` at usize::MAX
\* overflows: a panic, or a wrap to 0.
get_next_event(self) ==
    IF self.idx = USIZE_MAX
    THEN {[self |-> self, ret |-> <<>>, panic |-> TRUE],
          index_events(self, self.idx, 0)}
    ELSE {index_events(self, self.idx,
                       IF self.idx + 1 = Len(self.events) THEN 0 ELSE self.idx + 1)}

----------------------------------------------------------------------------
(* Scheduler *)

\* Scheduler::new
new ==
    [audio_start_time |-> 0,
     browser_start_time |-> 0,
     audio_logical_time |-> 0,
     browser_logical_time |-> 0,
     next_schedule_time |-> 0,
     lookahead |-> MicrosPerSecond \div 10,
     running |-> FALSE,
     tempo |-> 128,
     event_sequences |-> <<>>]

\* the evaluate loop taking every line, blank or not, as a sequence
RECURSIVE evaluate_lines_no_blank_check(_, _, _, _)
evaluate_lines_no_blank_check(ls, i, seqs, seq_idx) ==
    IF i > Len(ls)
    THEN {[seqs |-> seqs, seq_idx |-> seq_idx, panic |-> FALSE]}
    ELSE IF Len(seqs) > seq_idx
         THEN UNION {
                IF r.panic
                THEN {[seqs |-> [seqs EXCEPT ![seq_idx + 1] = r.self],
                       seq_idx |-> seq_idx, panic |-> TRUE]}
                ELSE evaluate_lines_no_blank_check(
                         ls, i + 1, [seqs EXCEPT ![seq_idx + 1] = r.self], seq_idx + 1)
                : r \in update_sequence(seqs[seq_idx + 1], trim(ls[i]))}
         ELSE evaluate_lines_no_blank_check(
                  ls, i + 1, Append(seqs, from_string(trim(ls[i]))), seq_idx + 1)

\* the `for line in all_lines.lines()` loop of Scheduler::evaluate
RECURSIVE evaluate_lines(_, _, _, _)
evaluate_lines(ls, i, seqs, seq_idx) ==
    IF i > Len(ls)
    THEN {[seqs |-> seqs, seq_idx |-> seq_idx, panic |-> FALSE]}
    ELSE IF trim(ls[i]) # <<>>
         THEN IF Len(seqs) > seq_idx
              THEN UNION {
                     IF r.panic
                     THEN {[seqs |-> [seqs EXCEPT ![seq_idx + 1] = r.self],
                            seq_idx |-> seq_idx, panic |-> TRUE]}
                     ELSE evaluate_lines(ls, i + 1, [seqs EXCEPT ![seq_idx + 1] = r.self],
                                         seq_idx + 1)
                     : r \in update_sequence(seqs[seq_idx + 1], trim(ls[i]))}
              ELSE evaluate_lines(ls, i + 1, Append(seqs, from_string(trim(ls[i]))),
                                  seq_idx + 1)
         ELSE evaluate_lines(ls, i + 1, seqs, seq_idx)

\* evaluate without the final truncate
evaluate_no_truncate(self, input) ==
    IF input = None
    THEN {[self |-> self, panic |-> FALSE]}
    ELSE {[self |-> [self EXCEPT !.event_sequences = r.seqs], panic |-> r.panic]
          : r \in evaluate_lines(lines(input), 1, self.event_sequences, 0)}

\* Scheduler::evaluate
evaluate(self, input) ==
    IF input = None
    THEN {[self |-> self, panic |-> FALSE]}
    ELSE {IF r.panic
          THEN [self |-> [self EXCEPT !.event_sequences = r.seqs], panic |-> TRUE]
          ELSE IF r.seq_idx < Len(r.seqs)
               THEN [self |-> [self EXCEPT !.event_sequences = SubSeq(r.seqs, 1, r.seq_idx)],
                     panic |-> FALSE]
               ELSE [self |-> [self EXCEPT !.event_sequences = r.seqs], panic |-> FALSE]
          : r \in evaluate_lines(lines(input), 1, self.event_sequences, 0)}

\* every token resolved to the sample player
source_type_sampler_only(next_event) == "Sampler"

\* the `match next_event.as_ref()` of generate_and_send_events
source_type(next_event) == IF next_event = Sine THEN "SinOsc" ELSE "Sampler"

\* the dispatch loop leaving a sequence where it is when its token is a rest
RECURSIVE send_events_rest_stays(_, _, _, _)
send_events_rest_stays(seqs, i, trigger_time, msgs) ==
    IF i > Len(seqs)
    THEN {[seqs |-> seqs, posted |-> msgs, panic |-> FALSE]}
    ELSE UNION {
           IF r.panic
           THEN {[seqs |-> [seqs EXCEPT ![i] = r.self], posted |-> msgs, panic |-> TRUE]}
           ELSE IF r.ret # Rest
                THEN send_events_rest_stays(
                         [seqs EXCEPT ![i] = r.self], i + 1, trigger_time,
                         Append(msgs, [source_type |-> source_type(r.ret),
                                       timestamp |-> trigger_time,
                                       sample_id |-> r.ret]))
                ELSE send_events_rest_stays(seqs, i + 1, trigger_time, msgs)
           : r \in get_next_event(seqs[i])}

\* the `for seq in self.event_sequences.iter_mut()` loop of generate_and_send_events
RECURSIVE send_events(_, _, _, _)
send_events(seqs, i, trigger_time, msgs) ==
    IF i > Len(seqs)
    THEN {[seqs |-> seqs, posted |-> msgs, panic |-> FALSE]}
    ELSE UNION {
           IF r.panic
           THEN {[seqs |-> [seqs EXCEPT ![i] = r.self], posted |-> msgs, panic |-> TRUE]}
           ELSE send_events([seqs EXCEPT ![i] = r.self], i + 1, trigger_time,
                            IF r.ret # Rest
                            THEN Append(msgs, [source_type |-> source_type(r.ret),
                                               timestamp |-> trigger_time,
                                               sample_id |-> r.ret])
                            ELSE msgs)
           : r \in get_next_event(seqs[i])}

\* Scheduler::generate_and_send_events
generate_and_send_events(self) ==
    IF self.event_sequences = <<>>
    THEN {[self |-> self, posted |-> <<>>, panic |-> FALSE]}
    ELSE {[self |-> [self EXCEPT !.event_sequences = r.seqs],
           posted |-> r.posted, panic |-> r.panic]
          : r \in send_events(self.event_sequences, 1,
                              self.audio_logical_time + self.lookahead, <<>>)}

\* a tick that returns right after an empty dispatch
active_tick_stops_when_empty(self, browser_timestamp) ==
    IF self.event_sequences = <<>>
    THEN {[self |-> self, posted |-> <<>>, sleeps |-> <<>>, panic |-> FALSE]}
    ELSE {IF g.panic
          THEN [self |-> g.self, posted |-> g.posted, sleeps |-> <<>>, panic |-> TRUE]
          ELSE LET nst == g.self.tempo - (browser_timestamp - g.self.browser_logical_time)
               IN  [self |-> [g.self EXCEPT
                                !.next_schedule_time = nst,
                                !.audio_logical_time =
                                    @ + (g.self.tempo * MicrosPerSecond) \div 1000,
                                !.browser_logical_time = @ + g.self.tempo],
                    posted |-> g.posted, sleeps |-> <<nst>>, panic |-> FALSE]
          : g \in generate_and_send_events(self)}

\* a tick that advances the audio clock by tempo taken as seconds
active_tick_audio_unscaled(self, browser_timestamp) ==
    {IF g.panic
     THEN [self |-> g.self, posted |-> g.posted, sleeps |-> <<>>, panic |-> TRUE]
     ELSE LET nst == g.self.tempo - (browser_timestamp - g.self.browser_logical_time)
          IN  [self |-> [g.self EXCEPT
                           !.next_schedule_time = nst,
                           !.audio_logical_time = @ + g.self.tempo * MicrosPerSecond,
                           !.browser_logical_time = @ + g.self.tempo],
               posted |-> g.posted, sleeps |-> <<nst>>, panic |-> FALSE]
     : g \in generate_and_send_events(self)}

\* a tick that always waits a full tempo (no drift correction)
active_tick_fixed_interval(self, browser_timestamp) ==
    {IF g.panic
     THEN [self |-> g.self, posted |-> g.posted, sleeps |-> <<>>, panic |-> TRUE]
     ELSE [self |-> [g.self EXCEPT
                       !.next_schedule_time = g.self.tempo,
                       !.audio_logical_time =
                           @ + (g.self.tempo * MicrosPerSecond) \div 1000,
                       !.browser_logical_time = @ + g.self.tempo],
           posted |-> g.posted, sleeps |-> <<g.self.tempo>>, panic |-> FALSE]
     : g \in generate_and_send_events(self)}

\* Scheduler::scheduler_routine past its `running` check: dispatch, drift
\* correction, clock advance and the sleep(..) request; `sleeps` are the
\* delays handed to self.sleep(..)
active_tick(self, browser_timestamp) ==
    {IF g.panic
     THEN [self |-> g.self, posted |-> g.posted, sleeps |-> <<>>, panic |-> TRUE]
     ELSE LET nst == g.self.tempo - (browser_timestamp - g.self.browser_logical_time)
          IN  [self |-> [g.self EXCEPT
                           !.next_schedule_time = nst,
                           !.audio_logical_time =
                               @ + (g.self.tempo * MicrosPerSecond) \div 1000,
                           !.browser_logical_time = @ + g.self.tempo],
               posted |-> g.posted, sleeps |-> <<nst>>, panic |-> FALSE]
     : g \in generate_and_send_events(self)}

\* scheduler_routine without the `running` check at entry
scheduler_routine_unguarded(self, browser_timestamp) ==
    active_tick(self, browser_timestamp)

\* Scheduler::scheduler_routine
scheduler_routine(self, browser_timestamp) ==
    IF ~self.running
    THEN {[self |-> self, posted |-> <<>>, sleeps |-> <<>>, panic |-> FALSE]}
    ELSE active_tick(self, browser_timestamp)

\* start that does not reset audio_logical_time to the new origin
start_keeps_audio_clock(self, audio_timestamp, browser_timestamp) ==
    scheduler_routine([self EXCEPT !.audio_start_time = audio_timestamp,
                                   !.browser_start_time = browser_timestamp,
                                   !.browser_logical_time = browser_timestamp,
                                   !.running = TRUE],
                      browser_timestamp)

\* Scheduler::start
start(self, audio_timestamp, browser_timestamp) ==
    scheduler_routine([self EXCEPT !.audio_start_time = audio_timestamp,
                                   !.browser_start_time = browser_timestamp,
                                   !.audio_logical_time = audio_timestamp,
                                   !.browser_logical_time = browser_timestamp,
                                   !.running = TRUE],
                      browser_timestamp)

\* Scheduler::stop
stop(self) == [self EXCEPT !.running = FALSE]

\* set_tempo that also re-plans the next tick with the new value
set_tempo_replans(self, tempo) ==
    [self EXCEPT !.tempo = tempo, !.next_schedule_time = tempo]

\* Scheduler::set_tempo
set_tempo(self, tempo) == [self EXCEPT !.tempo = tempo]

----------------------------------------------------------------------------
(* Host: clocks and the sleep(..).then(..) timers *)

\* AudioContext.currentTime (us) read when performance.now() = t (ms)
AudioClock(t) == (t * MicrosPerSecond) \div 1000 + AudioClockOffset

\* self.sleep(delay): resolves no earlier than `delay` ms from now (a negative
\* delay is treated as 0 by the host timer)
Timer(delay) == [delay |-> delay, due |-> now + Max(0, delay)]

RECURSIVE Timers(_)
Timers(sleeps) ==
    IF sleeps = <<>> THEN <<>> ELSE <<Timer(Head(sleeps))>> \o Timers(Tail(sleeps))

RemoveAt(s, i) == SubSeq(s, 1, i - 1) \o SubSeq(s, i + 1, Len(s))

Cursors(seqs) == [i \in 1..Len(seqs) |-> seqs[i].idx]

----------------------------------------------------------------------------
(* Inputs *)

SP == <<" ">>
LF == <<"\n">>

TextA == Sine \o SP \o Bd
TextB == Sine \o SP \o Bd \o SP \o Sn
TextC == LF \o SP \o Rest \o SP \o Bd \o <<"\t", "\r", "\n", "\n", "\t">> \o Sn \o LF
TextD == <<"\n", " ", "\r", "\n", "VT", " ">> \o Bd \o <<" ", "VT", "\n", "VT", "\t">>

Inputs == {None, TextA, TextC, TextD}
TempoValues == {64, 128}
ClockSteps == {64}    \* the host clock is observed every 64 ms

Lines == {<<>>, TextA, TextB, SP \o SP \o Bd \o <<"\t">> \o Rest \o SP, Rest}

----------------------------------------------------------------------------
(* Scheduler-level specification *)

Init ==
    /\ sched = new
    /\ now = 0
    /\ pending = <<>>
    /\ posted = <<>>
    /\ last = [op |-> "new"]
    /\ panicked = FALSE
    /\ seq = from_string(<<>>)
    /\ ret = <<>>

Evaluate(input) ==
    /\ ~panicked
    /\ \E r \in evaluate(sched, input) :
         /\ sched' = r.self
         /\ panicked' = r.panic
    /\ posted' = <<>>
    /\ last' = [op |-> "evaluate", input |-> input,
                cursors |-> Cursors(sched.event_sequences)]
    /\ UNCHANGED <<now, pending, seq, ret>>

Start ==
    /\ ~panicked
    /\ Len(pending) < MaxPending
    /\ \E r \in start(sched, AudioClock(now), now) :
         /\ sched' = r.self
         /\ posted' = r.posted
         /\ pending' = pending \o Timers(r.sleeps)
         /\ panicked' = r.panic
    /\ last' = [op |-> "start", audio_timestamp |-> AudioClock(now),
                browser_timestamp |-> now]
    /\ UNCHANGED <<now, seq, ret>>

Stop ==
    /\ ~panicked
    /\ sched' = stop(sched)
    /\ posted' = <<>>
    /\ last' = [op |-> "stop"]
    /\ UNCHANGED <<now, pending, panicked, seq, ret>>

SetTempo(tempo) ==
    /\ ~panicked
    /\ sched' = set_tempo(sched, tempo)
    /\ posted' = <<>>
    /\ last' = [op |-> "set_tempo", tempo |-> tempo]
    /\ UNCHANGED <<now, pending, panicked, seq, ret>>

\* the host resolves timer i and calls scheduler_routine(performance.now())
Fire(i) ==
    /\ ~panicked
    /\ pending[i].due <= now
    /\ \E r \in scheduler_routine(sched, now) :
         /\ sched' = r.self
         /\ posted' = r.posted
         /\ pending' = RemoveAt(pending, i) \o Timers(r.sleeps)
         /\ panicked' = r.panic
    /\ last' = [op |-> "scheduler_routine", browser_timestamp |-> now,
                active |-> sched.running, delay |-> pending[i].delay]
    /\ UNCHANGED <<now, seq, ret>>

\* time passes on the host
Advance ==
    /\ ~panicked
    /\ \E d \in ClockSteps :
         /\ now + d <= MaxTime
         /\ now' = now + d
    /\ posted' = <<>>
    /\ last' = [op |-> "wait"]
    /\ UNCHANGED <<sched, pending, panicked, seq, ret>>

Next ==
    \/ \E input \in Inputs : Evaluate(input)
    \/ Start
    \/ Stop
    \/ \E tempo \in TempoValues : SetTempo(tempo)
    \/ \E i \in 1..Len(pending) : Fire(i)
    \/ Advance

Spec == Init /\ [][Next]_vars

----------------------------------------------------------------------------
(* Convenience names for the Scheduler's fields *)

running == sched.running
tempo == sched.tempo
audio_start_time == sched.audio_start_time
browser_start_time == sched.browser_start_time
audio_logical_time == sched.audio_logical_time
browser_logical_time == sched.browser_logical_time
next_schedule_time == sched.next_schedule_time
lookahead == sched.lookahead
event_sequences == sched.event_sequences


----------------------------------------------------------------------------
(* EventSequence-level specification: one stand-alone sequence driven by   *)
(* from_string, update_sequence and get_next_event.  `last` keeps the line *)
(* the sequence was last built from, which operation built it, the cursor  *)
(* and events before that build, and the get_next_event calls since.       *)

SeqInit ==
    /\ sched = new
    /\ now = 0
    /\ pending = <<>>
    /\ posted = <<>>
    /\ panicked = FALSE
    /\ ret = <<>>
    /\ \E line \in Lines :
         /\ seq = from_string(line)
         /\ last = [op |-> "from_string", line |-> line, built |-> "from_string",
                    oldidx |-> 0, oldev |-> <<>>, calls |-> 0]

FromString(line) ==
    /\ ~panicked
    /\ seq' = from_string(line)
    /\ ret' = <<>>
    /\ last' = [op |-> "from_string", line |-> line, built |-> "from_string",
                oldidx |-> 0, oldev |-> <<>>, calls |-> 0]
    /\ UNCHANGED <<sched, now, pending, posted, panicked>>

UpdateSequence(line) ==
    /\ ~panicked
    /\ \E r \in update_sequence(seq, line) :
         /\ seq' = r.self
         /\ panicked' = r.panic
    /\ ret' = <<>>
    /\ last' = [op |-> "update_sequence", line |-> line, built |-> "update_sequence",
                oldidx |-> seq.idx, oldev |-> seq.events, calls |-> 0]
    /\ UNCHANGED <<sched, now, pending, posted>>

GetNextEvent ==
    /\ ~panicked
    /\ last.calls < MaxCalls
    /\ \E r \in get_next_event(seq) :
         /\ seq' = r.self
         /\ ret' = r.ret
         /\ panicked' = r.panic
    /\ last' = [last EXCEPT !.op = "get_next_event", !.calls = @ + 1]
    /\ UNCHANGED <<sched, now, pending, posted>>

SeqNext ==
    \/ \E line \in Lines : FromString(line)
    \/ \E line \in Lines : UpdateSequence(line)
    \/ GetNextEvent

SeqSpec == SeqInit /\ [][SeqNext]_vars

----------------------------------------------------------------------------
(* What a line of text denotes, stated on positions of the text rather     *)
(* than by scanning it: a token is a maximal run of characters that are    *)
(* not ASCII whitespace.                                                   *)

TokenSpans(line) ==
    {sp \in (1..Len(line)) \X (1..Len(line)) :
        /\ sp[1] <= sp[2]
        /\ \A i \in sp[1]..sp[2] : ~is_ascii_whitespace(line[i])
        /\ (sp[1] = 1 \/ is_ascii_whitespace(line[sp[1] - 1]))
        /\ (sp[2] = Len(line) \/ is_ascii_whitespace(line[sp[2] + 1]))}

TokensOf(line) ==
    [k \in 1..Cardinality(TokenSpans(line)) |->
        LET sp == CHOOSE q \in TokenSpans(line) :
                      Cardinality({o \in TokenSpans(line) : o[1] < q[1]}) = k - 1
        IN  SubSeq(line, sp[1], sp[2])]

----------------------------------------------------------------------------
(* Claims about EventSequence, checked under SeqSpec *)

\* C3: get_next_event on a sequence with zero tokens returns the rest
\* sentinel "~", does not fail, and leaves tokens and cursor unchanged.
C3_EmptyNextIsRest ==
    [][(last'.op = "get_next_event" /\ seq.events = <<>>)
        => (ret' = Rest /\ ~panicked' /\ seq' = seq)]_vars

\* C4: on a sequence of len >= 1 built by from_string, the n-th call of
\* get_next_event returns original token ((n-1) mod len), so every block of
\* len calls returns each token once in order, and the cursor is 0 after
\* every full cycle.
C4_CyclicOrder ==
    (last.built = "from_string" /\ last.op = "get_next_event"
        /\ Len(TokensOf(last.line)) >= 1)
    => LET toks == TokensOf(last.line)
           n == Len(toks)
       IN  /\ ~panicked
           /\ seq.events = toks
           /\ ret = toks[((last.calls - 1) % n) + 1]
           /\ (last.calls % n = 0 => seq.idx = 0)

C4_Witness ==
    /\ last.built = "from_string"
    /\ last.op = "get_next_event"
    /\ Len(TokensOf(last.line)) = 3
    /\ last.calls = 6
    /\ ret = Sn
    /\ seq.idx = 0

\* C5: update_sequence with a line of n >= 1 tokens replaces the tokens and
\* keeps the old cursor if it is < n, else sets it to n-1; the following
\* get_next_event calls return the new tokens from that cursor on.
C5_UpdateKeepsCursor ==
    (last.built = "update_sequence" /\ Len(TokensOf(last.line)) >= 1)
    => LET toks == TokensOf(last.line)
           n == Len(toks)
           base == IF last.oldidx < n THEN last.oldidx ELSE n - 1
       IN  /\ ~panicked
           /\ seq.events = toks
           /\ seq.idx = (base + last.calls) % n
           /\ (last.calls >= 1 => ret = toks[((base + last.calls - 1) % n) + 1])

\* "sine bd" at cursor 0 replaced by "sine bd sn", then two calls: sine, bd
C5_Witness ==
    /\ last.built = "update_sequence"
    /\ last.oldev = <<Sine, Bd>>
    /\ last.oldidx = 0
    /\ last.line = TextB
    /\ last.calls = 2
    /\ ret = Bd
    /\ seq.idx = 2

\* a shortened sequence whose cursor pointed past the new end
C5_WitnessClamp ==
    /\ last.built = "update_sequence"
    /\ last.oldidx = 2
    /\ Len(seq.events) = 2
    /\ last.calls = 0
    /\ seq.idx = 1

----------------------------------------------------------------------------
(* What an input text denotes, stated on positions of the text: its lines  *)
(* start at position 1 and after every "\n"; a line is blank when all its  *)
(* characters are whitespace; a non-blank line is read without its leading *)
(* and trailing whitespace.                                                *)

LineStarts(text) ==
    {s \in 1..Len(text) : s = 1 \/ text[s - 1] = "\n"}

LineAt(text, s) ==
    LET ends == {e \in s..Len(text) : text[e] = "\n"}
        e == IF ends = {} THEN Len(text) + 1
             ELSE CHOOSE x \in ends : \A y \in ends : x <= y
    IN  SubSeq(text, s, e - 1)

Blank(line) == \A i \in 1..Len(line) : is_whitespace(line[i])

NonBlankStarts(text) == {s \in LineStarts(text) : ~Blank(LineAt(text, s))}

NonBlankCount(text) == Cardinality(NonBlankStarts(text))

NthNonBlank(text, k) ==
    LineAt(text, CHOOSE s \in NonBlankStarts(text) :
                     Cardinality({o \in NonBlankStarts(text) : o < s}) = k - 1)

Trimmed(line) ==
    LET ink == {i \in 1..Len(line) : ~is_whitespace(line[i])}
    IN  SubSeq(line, CHOOSE a \in ink : \A b \in ink : a <= b,
                     CHOOSE a \in ink : \A b \in ink : a >= b)

\* for every input text, the token lists of its non-blank lines, in line order
ExpectedSequences ==
    [text \in Inputs \ {None} |->
        [k \in 1..NonBlankCount(text) |-> TokensOf(Trimmed(NthNonBlank(text, k)))]]

\* the sequences whose token at the cursor is not the rest sentinel
Sounding(seqs) ==
    {i \in 1..Len(seqs) : seqs[i].events[seqs[i].idx + 1] # Rest}

\* one message per sounding sequence, in increasing index order
ExpectedPosted(seqs, timestamp) ==
    [k \in 1..Cardinality(Sounding(seqs)) |->
        LET i == CHOOSE j \in Sounding(seqs) :
                     Cardinality({o \in Sounding(seqs) : o < j}) = k - 1
            token == seqs[i].events[seqs[i].idx + 1]
        IN  [source_type |-> IF token = Sine THEN "SinOsc" ELSE "Sampler",
             timestamp |-> timestamp,
             sample_id |-> token]]

----------------------------------------------------------------------------
(* Claims about the Scheduler, checked under Spec *)

\* C1: a scheduler_routine invocation that fires while running = false is a
\* no-op: no message, no cursor or clock or next_schedule_time change, and
\* no further host invocation requested (the fired timer just goes away).
C1_IdleTickNoOp ==
    [][(last'.op = "scheduler_routine" /\ ~running)
        => /\ posted' = <<>>
           /\ sched' = sched
           /\ ~panicked'
           /\ \E i \in 1..Len(pending) : pending' = RemoveAt(pending, i)]_vars

\* stop() after a tick returned, then the pending tick fired
C1_Witness ==
    /\ last.op = "scheduler_routine"
    /\ ~last.active
    /\ event_sequences # <<>>
    /\ browser_logical_time > browser_start_time
    /\ pending = <<>>

\* C2: on an active tick fired at A >= W = browser_logical_time, the delay
\* stored in next_schedule_time and requested from the host is
\* max(0, tempo - (A - W)), never negative.
C2_DelayClamped ==
    [][(last'.op = "scheduler_routine" /\ running /\ now >= browser_logical_time)
        => /\ next_schedule_time' = Max(0, tempo - (now - browser_logical_time))
           /\ pending' # <<>>
           /\ pending'[Len(pending')].delay = Max(0, tempo - (now - browser_logical_time))]_vars

\* C6: after evaluate(text) with text present the scheduler holds one
\* sequence per non-blank line of text, in line order, each holding the
\* tokens of its line.
C6_OneSequencePerLine ==
    (last.op = "evaluate" /\ last.input # None)
    => /\ ~panicked
       /\ Len(event_sequences) = Len(ExpectedSequences[last.input])
       /\ \A i \in 1..Len(event_sequences) :
              event_sequences[i].events = ExpectedSequences[last.input][i]

\* blank lines interspersed, evaluated while running, fewer lines than before
C6_Witness ==
    /\ last.op = "evaluate"
    /\ last.input = TextD
    /\ running
    /\ Len(last.cursors) = 2
    /\ Len(event_sequences) = 1

\* C7 as claimed: an evaluate with fewer non-blank lines drops the surplus
\* sequences and leaves the cursors of the remaining ones as they were.
C7_CursorsUntouched ==
    (last.op = "evaluate" /\ last.input # None
        /\ Len(ExpectedSequences[last.input]) < Len(last.cursors))
    => /\ Len(event_sequences) = Len(ExpectedSequences[last.input])
       /\ \A i \in 1..Len(event_sequences) : event_sequences[i].idx = last.cursors[i]

\* C7 amended: an evaluate with fewer non-blank lines drops the surplus
\* sequences; each remaining cursor is as it was if that is still less than
\* the new token count of its line, and the new token count - 1 otherwise.
C7_CursorsKeptOrClamped ==
    (last.op = "evaluate" /\ last.input # None
        /\ Len(ExpectedSequences[last.input]) < Len(last.cursors))
    => /\ ~panicked
       /\ Len(event_sequences) = Len(ExpectedSequences[last.input])
       /\ \A i \in 1..Len(event_sequences) :
              LET n == Len(ExpectedSequences[last.input][i])
              IN  event_sequences[i].idx =
                      IF last.cursors[i] < n THEN last.cursors[i] ELSE n - 1

\* two sequences cut down to one whose cursor (1) survives
C7_Witness ==
    /\ last.op = "evaluate"
    /\ last.input # None
    /\ Len(last.cursors) = 2
    /\ Len(event_sequences) = 1
    /\ last.cursors[1] = 1
    /\ event_sequences[1].idx = 1

\* C8: an active tick with a non-empty sequence set posts exactly one
\* message per sequence whose token at the cursor is not "~", in index
\* order, stamped audio_logical_time at tick entry + lookahead, with
\* source type SinOsc for "sine" and Sampler otherwise.
C8_DispatchList ==
    [][(/\ last'.op \in {"scheduler_routine", "start"}
        /\ (last'.op = "start" \/ running)
        /\ event_sequences # <<>>)
        => posted' = ExpectedPosted(event_sequences,
                        (IF last'.op = "start" THEN last'.audio_timestamp
                                               ELSE audio_logical_time) + lookahead)]_vars

\* a host-fired tick over two sequences, one at a rest and one sounding
C8_Witness ==
    /\ last.op = "scheduler_routine"
    /\ last.active
    /\ Len(event_sequences) = 2
    /\ Len(posted) = 1
    /\ posted[1].source_type = "Sampler"
    /\ posted[1].timestamp > lookahead + AudioClockOffset

\* C9: start(a, w) sets both origins, sets running, and runs one tick at
\* fire timestamp w: dispatch stamped a + lookahead, audio_logical_time =
\* a + tempo/1000 s, browser_logical_time = w + tempo, next_schedule_time =
\* tempo, and one host invocation requested.
C9_StartRunsFirstTick ==
    [][last'.op = "start"
        => LET a == last'.audio_timestamp
               w == last'.browser_timestamp
           IN  /\ audio_start_time' = a
               /\ browser_start_time' = w
               /\ running'
               /\ ~panicked'
               /\ posted' = ExpectedPosted(event_sequences, a + lookahead)
               /\ audio_logical_time' = a + 1000 * tempo
               /\ browser_logical_time' = w + tempo
               /\ next_schedule_time' = tempo
               /\ tempo' = tempo
               /\ pending' = Append(pending, [delay |-> tempo, due |-> now + tempo])]_vars

C9_Witness ==
    /\ last.op = "start"
    /\ last.browser_timestamp > 0
    /\ posted # <<>>
    /\ Len(pending) = 1

\* C10: while running stays true, audio_logical_time and
\* browser_logical_time never decrease from one state to the next.
C10_ClocksMonotonic ==
    [][(running /\ running')
        => /\ audio_logical_time' >= audio_logical_time
           /\ browser_logical_time' >= browser_logical_time]_vars

\* C11: set_tempo(v) changes tempo and nothing else (clocks, origins,
\* next_schedule_time, running, sequences and the timers already requested
\* stay as they are), nothing else changes tempo, and an active tick uses
\* the tempo in force when it fires for its delay (tempo - overshoot) and
\* for advancing both clocks.
C11_SetTempoOnlyTempo ==
    [][/\ (last'.op = "set_tempo"
            => /\ sched' = [sched EXCEPT !.tempo = last'.tempo]
               /\ pending' = pending
               /\ posted' = <<>>
               /\ ~panicked')
       /\ (last'.op # "set_tempo" => tempo' = tempo)
       /\ ((last'.op = "scheduler_routine" /\ running)
            => /\ next_schedule_time' = tempo - (now - browser_logical_time)
               /\ pending'[Len(pending')].delay = tempo - (now - browser_logical_time)
               /\ audio_logical_time' = audio_logical_time + 1000 * tempo
               /\ browser_logical_time' = browser_logical_time + tempo)]_vars

\* a timer requested under tempo 128 fires after set_tempo(64): the tick
\* waited the old 128 ms but advances the clocks by 64
C11_Witness ==
    /\ last.op = "scheduler_routine"
    /\ last.active
    /\ last.delay = 128
    /\ tempo = 64
    /\ browser_logical_time = browser_start_time + 128 + 64
    /\ next_schedule_time = 64 - (last.browser_timestamp - (browser_logical_time - 64))

\* C13: every active tick (fired by the host while running, or run by
\* start), with or without sequences, advances audio_logical_time by
\* tempo/1000 s and browser_logical_time by tempo from their values at tick
\* entry, recomputes next_schedule_time and requests exactly one host
\* invocation last; with no sequences it posts nothing.
C13_ActiveTickAlwaysContinues ==
    [][/\ (last'.op = "scheduler_routine" /\ running)
           => /\ ~panicked'
              /\ audio_logical_time' = audio_logical_time + 1000 * tempo
              /\ browser_logical_time' = browser_logical_time + tempo
              /\ next_schedule_time' = tempo - (now - browser_logical_time)
              /\ \E i \in 1..Len(pending) :
                    pending' = Append(RemoveAt(pending, i),
                                      [delay |-> next_schedule_time',
                                       due |-> now + Max(0, next_schedule_time')])
              /\ (event_sequences = <<>> => posted' = <<>>)
       /\ last'.op = "start"
           => /\ ~panicked'
              /\ audio_logical_time' = last'.audio_timestamp + 1000 * tempo
              /\ browser_logical_time' = last'.browser_timestamp + tempo
              /\ next_schedule_time' = tempo
              /\ pending' = Append(pending, [delay |-> tempo, due |-> now + tempo])
              /\ (event_sequences = <<>> => posted' = <<>>)]_vars

\* a host-fired tick over an empty sequence set
C13_Witness ==
    /\ last.op = "scheduler_routine"
    /\ last.active
    /\ event_sequences = <<>>
    /\ posted = <<>>
    /\ browser_logical_time >= browser_start_time + 2 * tempo
    /\ Len(pending) = 1

----------------------------------------------------------------------------
(* Cursor bounds *)

InBounds(s) == s.events # <<>> => (0 <= s.idx /\ s.idx < Len(s.events))

\* C14: in every reachable state, after any sequence of from_string,
\* update_sequence and get_next_event calls, a sequence with at least one
\* token has 0 <= idx < events.len(); the same for every sequence the
\* scheduler holds.
C14_CursorInBounds ==
    /\ InBounds(seq)
    /\ \A i \in 1..Len(event_sequences) : InBounds(event_sequences[i])

\* three tokens at cursor 2 replaced by two tokens (cursor clamped to 1),
\* then one get_next_event (cursor wrapped to 0)
C14_Witness ==
    /\ last.op = "get_next_event"
    /\ last.built = "update_sequence"
    /\ Len(last.oldev) = 3
    /\ last.oldidx = 2
    /\ Len(seq.events) = 2
    /\ last.calls = 1
    /\ seq.idx = 0
    /\ ~panicked

----------------------------------------------------------------------------
(* Tick chains *)

\* C16: with a monotonic host clock and timers that fire no earlier than
\* requested, every active tick is entered with a timestamp that is not
\* before browser_logical_time (a tick is never earlier than scheduled).
C16_TickNeverEarly ==
    [][(last'.op = "scheduler_routine" /\ running)
        => last'.browser_timestamp >= browser_logical_time]_vars

\* C17: after any interleaving of start, stop, evaluate, set_tempo and
\* timer firings, at most one host-delayed invocation of scheduler_routine
\* is outstanding.
C17_OneTickChain == Len(pending) <= 1

----------------------------------------------------------------------------
(* Clock correlation *)

\* C18: in every reachable state (any number of ticks, tempo changes, stops
\* and repeated starts) the two logical clocks have advanced by the same
\* span since the last start: the wall-clock span in ms is 1000 times the
\* audio span in seconds (audio times are kept in microseconds here, so the
\* audio span in us is 1000 times the wall-clock span in ms).
C18_ClocksCorrelated ==
    audio_logical_time - audio_start_time
        = 1000 * (browser_logical_time - browser_start_time)

\* started at 64 with tempo 128, then a tick with tempo 64
C18_Witness ==
    /\ last.op = "scheduler_routine"
    /\ last.active
    /\ tempo = 64
    /\ browser_start_time = 64
    /\ browser_logical_time = 64 + 128 + 64
    /\ audio_logical_time = AudioClock(64) + 128000 + 64000

----------------------------------------------------------------------------
(* Sequences held by the scheduler *)

\* C19: after any sequence of evaluate calls (no text, blank and non-blank
\* lines mixed), every sequence the scheduler holds has at least one token;
\* so no tick calls get_next_event on an empty sequence and update_sequence
\* never computes len - 1 with len = 0: nothing panics and no cursor holds
\* the wrapped value.
C19_NoEmptySequence ==
    /\ ~panicked
    /\ \A i \in 1..Len(event_sequences) :
          /\ event_sequences[i].events # <<>>
          /\ event_sequences[i].idx # USIZE_MAX

\* text with blank lines before, between and after two non-blank lines,
\* evaluated over one existing sequence whose cursor had moved
C19_Witness ==
    /\ last.op = "evaluate"
    /\ last.input = TextC
    /\ last.cursors = <<1>>
    /\ Len(event_sequences) = 2
    /\ event_sequences[1] = [events |-> <<Rest, Bd>>, idx |-> 1]
    /\ event_sequences[2] = [events |-> <<Sn>>, idx |-> 0]

----------------------------------------------------------------------------
(* Cursor movement *)

\* the step runs an active tick: a host-fired scheduler_routine while
\* running, or the tick run by start
ActiveTickStep ==
    \/ last'.op = "scheduler_routine" /\ running
    \/ last'.op = "start"

\* C20: every active tick moves the cursor of every sequence by exactly one
\* modulo the sequence's length, also where the current token is the rest
\* "~" (for which no message is posted); stop, set_tempo, an idle tick and
\* the passing of time leave the sequences as they are, and evaluate changes
\* the cursor of a kept sequence only by clamping it to the new last token.
C20_TickAdvancesEveryCursor ==
    [][/\ ActiveTickStep
           => /\ Len(event_sequences') = Len(event_sequences)
              /\ \A i \in 1..Len(event_sequences) :
                    /\ event_sequences'[i].events = event_sequences[i].events
                    /\ event_sequences'[i].idx
                         = (event_sequences[i].idx + 1) % Len(event_sequences[i].events)
              /\ Len(posted')
                   = Cardinality({i \in 1..Len(event_sequences) :
                        event_sequences[i].events[event_sequences[i].idx + 1] # Rest})
              /\ \A k \in 1..Len(posted') : posted'[k].sample_id # Rest
       /\ (~ActiveTickStep /\ last'.op # "evaluate")
           => event_sequences' = event_sequences
       /\ last'.op = "evaluate"
           => \A i \in 1..Len(event_sequences') :
                 i <= Len(event_sequences)
                 => \/ event_sequences'[i].idx = event_sequences[i].idx
                    \/ /\ event_sequences[i].idx >= Len(event_sequences'[i].events)
                       /\ event_sequences'[i].idx = Len(event_sequences'[i].events) - 1]_vars

\* a host-fired tick over "~ bd" and "sn" at their first tokens: the rest
\* posts nothing and its cursor moves on, "sn" is posted and wraps to 0
C20_Witness ==
    /\ last.op = "scheduler_routine"
    /\ last.active
    /\ event_sequences = << [events |-> <<Rest, Bd>>, idx |-> 1],
                            [events |-> <<Sn>>, idx |-> 0] >>
    /\ Len(posted) = 1
    /\ posted[1].sample_id = Sn

----------------------------------------------------------------------------
(* One tick chain under a host of bounded latency: tempo is set before the *)
(* only start, nothing stops the scheduler, and the host calls back every  *)
(* requested invocation less than one tempo after it is due.               *)

DriftMaxTime == 384      \* the host clock is followed up to this many ms
LatencySteps == {32}     \* granularity of the host's latency

DriftSetTempo(value) ==
    /\ ~running
    /\ SetTempo(value)

DriftStart ==
    /\ ~running
    /\ Start

DriftFire ==
    /\ pending # <<>>
    /\ now - pending[1].due < tempo
    /\ Fire(1)

DriftAdvance ==
    /\ ~panicked
    /\ \E d \in LatencySteps :
         /\ now + d <= DriftMaxTime
         /\ \A i \in 1..Len(pending) : now + d - pending[i].due < tempo
         /\ now' = now + d
    /\ posted' = <<>>
    /\ last' = [op |-> "wait"]
    /\ UNCHANGED <<sched, pending, panicked, seq, ret>>

DriftNext ==
    \/ \E input \in Inputs : Evaluate(input)
    \/ \E value \in TempoValues : DriftSetTempo(value)
    \/ DriftStart
    \/ DriftFire
    \/ DriftAdvance

DriftSpec == Init /\ [][DriftNext]_vars

\* C15: with one start, a fixed tempo T and a host that fires each requested
\* invocation L_n after it is due, 0 <= L_n < T, the n-th tick is entered at
\* browser_start_time + n*T + L_n: its overshoot over browser_logical_time
\* is its own latency only, stays below T, and the wait it requests is
\* T - L_n, so that the next invocation is due at the next logical time.
C15_NoDriftAccumulation ==
    [][last'.op = "scheduler_routine"
        => LET n == (browser_logical_time - browser_start_time) \div tempo
               L == last'.browser_timestamp - pending[1].due
               overshoot == last'.browser_timestamp - browser_logical_time
           IN  /\ n >= 1
               /\ last'.browser_timestamp = browser_start_time + n * tempo + L
               /\ overshoot = L
               /\ 0 <= overshoot /\ overshoot < tempo
               /\ pending' = <<[delay |-> tempo - L,
                                due |-> browser_start_time + (n + 1) * tempo]>>
               /\ browser_logical_time' = browser_start_time + (n + 1) * tempo]_vars

\* started at 32 with tempo 128; the second host-fired tick comes 96 ms late
C15_Witness ==
    /\ last.op = "scheduler_routine"
    /\ tempo = 128
    /\ browser_start_time = 32
    /\ last.browser_timestamp = 32 + 2 * 128 + 96
    /\ next_schedule_time = 128 - 96
    /\ browser_logical_time = 32 + 3 * 128

----------------------------------------------------------------------------
(* The scheduler under a fair host: time keeps passing and a timer that is *)
(* due is eventually resolved.  Calls are made while the host clock is     *)
(* within LiveMaxTime; once the scheduler is stopped the clock is followed *)
(* further, up to DrainHorizon, for as long as timers are outstanding.     *)

LiveMaxTime == 128       \* start is called and ticks run up to this many ms
DrainHorizon == 1024     \* timers of a stopped scheduler are followed up to here

LiveInputs == {None, TextC}

LiveStart ==
    /\ now <= LiveMaxTime
    /\ Start

LiveAdvance ==
    /\ ~panicked
    /\ \E d \in ClockSteps :
         /\ \/ now + d <= LiveMaxTime
            \/ ~running /\ pending # <<>> /\ now + d <= DrainHorizon
         /\ now' = now + d
    /\ posted' = <<>>
    /\ last' = [op |-> "wait"]
    /\ UNCHANGED <<sched, pending, panicked, seq, ret>>

LiveNext ==
    \/ \E input \in LiveInputs : Evaluate(input)
    \/ LiveStart
    \/ Stop
    \/ \E value \in TempoValues : SetTempo(value)
    \/ \E i \in 1..Len(pending) : Fire(i)
    \/ LiveAdvance

LiveSpec ==
    /\ Init
    /\ [][LiveNext]_vars
    /\ WF_vars(LiveAdvance)
    /\ WF_vars(\E i \in 1..Len(pending) : Fire(i))

\* C12: after stop() with no later start(), every invocation already
\* requested from the host fires once as an idle tick (it is consumed,
\* changes nothing and requests nothing), and under a fair host a state with
\* no outstanding invocation is reached and kept forever.
C12_ChainTerminates ==
    /\ [][(last'.op = "scheduler_routine" /\ ~running)
           => /\ Len(pending') = Len(pending) - 1
              /\ sched' = sched]_vars
    /\ (<>[](~running) => <>[](pending = <<>>))

\* stopped with two invocations outstanding, both fired idle since
C12_Witness ==
    /\ last.op = "scheduler_routine"
    /\ ~last.active
    /\ ~running
    /\ pending = <<>>
    /\ now > LiveMaxTime
    /\ browser_logical_time > browser_start_time + tempo

====
